---- MODULE Spec2Model ----
(***************************************************************************)
(* The message-ingestion service of agent.py: the API-key gate, the        *)
(* latency middleware, the in-memory store `db` and the four routes.       *)
(*                                                                         *)
(* Every coroutine of agent.py runs on one event loop, so the code between *)
(* two awaits is one atomic step.  A request is therefore four steps:      *)
(*   MiddlewareEnter   add_process_time_header up to `await call_next`     *)
(*   get_api_key       the security dependency (protected routes only)     *)
(*   <route handler>   body validation and the handler's body              *)
(*   MiddlewareExit    add_process_time_header after `await call_next`     *)
(* and the steps of different requests interleave freely.                  *)
(*                                                                         *)
(* Units: a reading of the wall clock is in epoch milliseconds (line 99),   *)
(* the monotonic clock `perf` and latency_stats.total_ms are in hundredths  *)
(* of a millisecond, the unit avg_latency_ms is rounded to (line 138).     *)
(***************************************************************************)
EXTENDS Integers, Sequences, FiniteSets, TLC

VARIABLES
    db,             \* agent.py:92   dict id -> UserMessage, in insertion order
    latency_stats,  \* agent.py:75   {"count", "total_ms"}
    perf,           \* time.perf_counter() in 0.01 ms
    conn,           \* the requests in flight: their position, input and response
    received,       \* number of requests the server has accepted so far
    stored          \* the messages stored so far, one per "Message stored" log entry

vars == <<db, latency_stats, perf, conn, received, stored>>

(***************************** bounds **************************************)
MaxId       == 2    \* message ids 1..MaxId
MaxInFlight == 2    \* requests in flight at once
MaxReq      == 3    \* requests accepted in one run
MaxPerf     == 1    \* last reading of the monotonic clock
MaxWall     == 1    \* last reading of the wall clock
MaxSend     == 1    \* last client send_At
MaxSkip     == 1    \* skip values 0..MaxSkip of the concurrent runs
MaxLimit    == 2    \* limit values 1..MaxLimit of the concurrent runs
PageIds     == 10   \* ids posted in the pagination runs
PageMargin  == 1    \* skip and limit of the pagination runs reach this far outside

(************************* program constants *******************************)
DefaultSkip  == 0        \* agent.py:124  skip: int = 0
DefaultLimit == 200      \* agent.py:124  limit: int = 200
\* agent.py:24 reads the secret from the environment; this is the value the
\* replay client sends (send.py:17)
API_KEY      == "supersecretapikey123"

(***************************** values **************************************)
None     == {}          \* an unset Optional[int]; {v} is the int v
NoHeader == "<absent>"  \* the auth header is not in the request
Bogus    == 77          \* a receive_At / tsDifference a client puts in the body

\* int(time.time() * 1000): the system clock may be set either way, so a
\* reading is any of these, whatever was read before
WallTimes == 0..MaxWall

Ids      == 1..MaxId
Slots    == 1..MaxInFlight
Headers  == {NoHeader, "wrong-key", API_KEY}

Max(a, b) == IF a > b THEN a ELSE b
Min(a, b) == IF a < b THEN a ELSE b

\* UserMessage: `content` stands for all the pass-through fields
\* (mid, type, msg_type, sender_id, agent_id, payload, content, username, ts,
\* paused_diff_seconds); a client sends them together with its send_At.
\* A client leaves receive_At and tsDifference out, or fills them in itself.
UserMessage(id, variant) ==
    [id           |-> id,
     content      |-> variant.content,
     send_At      |-> variant.send_At,
     receive_At   |-> variant.stamps,
     tsDifference |-> variant.stamps]

Variants == {[content |-> "first", send_At |-> 0, stamps |-> None],
             [content |-> "second", send_At |-> MaxSend, stamps |-> {Bogus}]}

Messages(ids) == {UserMessage(id, v) : id \in ids, v \in Variants}

(****************************** the dict ***********************************)
\* Python's dict keeps its keys in insertion order; db is the sequence of its
\* values in that order, each value carrying its key in `id`.
DictKeys(d) == {d[i].id : i \in 1..Len(d)}

Contains(d, k) == k \in DictKeys(d)

IndexOf(d, k) == CHOOSE i \in 1..Len(d) : d[i].id = k

GetItem(d, k) == d[IndexOf(d, k)]

\* d[k] = v : an existing key keeps its position, a new key goes last
SetItem(d, k, v) ==
    IF Contains(d, k) THEN [d EXCEPT ![IndexOf(d, k)] = v] ELSE Append(d, v)

\* list(d.values())
Values(d) == [i \in 1..Len(d) |-> d[i]]

\* s[start:stop] on a list: a negative index counts from the end, and both
\* ends are clamped to the list
SliceIndex(n, i) == IF i < 0 THEN Max(n + i, 0) ELSE Min(i, n)

Slice(s, start, stop) ==
    SubSeq(s, SliceIndex(Len(s), start) + 1, SliceIndex(Len(s), stop))

(***************************** requests ************************************)
\* A request: its route, its auth header and the route's inputs.
PostRequest(header, valid, message) ==
    [route |-> "post", header |-> header, valid |-> valid, message |-> message]

GetRequest(header, message_id) ==
    [route |-> "get", header |-> header, message_id |-> message_id]

ListRequest(header, skip, limit) ==
    [route |-> "list", header |-> header, skip |-> skip, limit |-> limit]

HealthRequest == [route |-> "health", header |-> NoHeader]

\* a body that fails UserMessage's validation (a missing or ill-typed field)
Malformed == [id |-> 0, content |-> "malformed", send_At |-> 0,
              receive_At |-> None, tsDifference |-> None]

Protected(req) == req.route \in {"post", "get", "list"}

\* The requests of the concurrent runs.  A request the gate rejects never has
\* its inputs read, so one request per route and bad header stands for all.
Requests ==
    {PostRequest(API_KEY, TRUE, m) : m \in Messages(Ids)}
    \cup {PostRequest(API_KEY, FALSE, Malformed)}
    \cup {GetRequest(API_KEY, id) : id \in Ids}
    \cup {ListRequest(API_KEY, s, l) : s \in DefaultSkip..MaxSkip, l \in 1..MaxLimit}
    \cup {HealthRequest}
    \cup UNION {{PostRequest(h, TRUE, UserMessage(1, CHOOSE v \in Variants : v.stamps # None)),
                 GetRequest(h, 1),
                 ListRequest(h, DefaultSkip, MaxLimit)} : h \in Headers \ {API_KEY}}

(***************************** responses ***********************************)
Idle == [pc |-> "idle"]

Unauthorized    == [status |-> "unauthorized"]  \* HTTPException, lines 31-34 (and line 26)
ValidationError == [status |-> "validation"]    \* the body does not parse as UserMessage
NotFound        == [status |-> "not_found"]     \* HTTPException 404, line 118
Ok(body)        == [status |-> "ok", body |-> body]

(************************** pure parts of the code *************************)
\* a gate that lets a request without the header through (auto_error=False
\* and no check for None)
GetApiKey_absent_passes(header) == header = NoHeader \/ header = API_KEY

\* lines 28-35: the dependency lets the request through iff the header is
\* there (APIKeyHeader, auto_error=True) and equals API_KEY
GetApiKey(header) == header # NoHeader /\ header = API_KEY

\* a stamp that keeps what the client filled in (`if ... is None`)
Stamp_trusting(message, t) ==
    [message EXCEPT
       !.receive_At   = IF message.receive_At = None THEN {t} ELSE message.receive_At,
       !.tsDifference = IF message.tsDifference = None
                          THEN {t - message.send_At} ELSE message.tsDifference]

\* a stamp that forgets line 100
Stamp_receive_only(message, t) == [message EXCEPT !.receive_At = {t}]

\* lines 99-100
Stamp(message, t) ==
    [message EXCEPT !.receive_At = {t}, !.tsDifference = {t - message.send_At}]

\* db.setdefault(message.id, message): the first record of an id stays
Put_if_absent(d, message) ==
    IF Contains(d, message.id) THEN d ELSE Append(d, message)

\* db.pop(message.id, None) before the insert: a re-posted id moves last
Put_move_to_end(d, message) ==
    Append(SelectSeq(d, LAMBDA m : m.id # message.id), message)

\* line 101
Put(d, message) == SetItem(d, message.id, message)

\* lines 116-120
FetchUserMessage(d, message_id) ==
    IF ~Contains(d, message_id) THEN NotFound ELSE Ok(GetItem(d, message_id))

\* messages[skip: limit]
FetchMessages_stop_is_limit(d, skip, limit) == Slice(Values(d), skip, limit)

\* lines 126-127
FetchMessages(d, skip, limit) == Slice(Values(d), skip, skip + limit)

\* round(total_ms / count, 2): the quotient rounded to the nearest hundredth.
\* An exact half is rounded by the binary value of the float quotient, which
\* lies on either side of it: both neighbours are possible.
Round2(total, count) ==
    LET q == total \div count
        r == total % count
    IN  IF 2 * r < count THEN {q}
        ELSE IF 2 * r > count THEN {q + 1}
        ELSE {q, q + 1}

\* a default other than 0 for the mean of no requests
AvgLatency_no_default(stats) ==
    IF stats.count > 0 THEN Round2(stats.total_ms, stats.count) ELSE {0 - 1}

\* line 138
AvgLatency(stats) ==
    IF stats.count > 0 THEN Round2(stats.total_ms, stats.count) ELSE {0}

\* "message_count": len(latency_stats), the length of the other global
HealthBody_len_of_stats(d, avg) ==
    [message_count |-> Cardinality({"count", "total_ms"}), avg_latency_ms |-> avg]

\* lines 134-139 (status and timestamp left out)
HealthBody(d, avg) == [message_count |-> Len(d), avg_latency_ms |-> avg]

\* latency_stats["total_ms"] = process_time, an assignment for the +=
UpdateStats_assign(stats, process_time) ==
    [count |-> stats.count + 1, total_ms |-> process_time]

\* lines 84-85
UpdateStats(stats, process_time) ==
    [count |-> stats.count + 1, total_ms |-> stats.total_ms + process_time]

(****************************** the steps **********************************)
Init ==
    /\ db = <<>>
    /\ latency_stats = [count |-> 0, total_ms |-> 0]
    /\ perf = 0
    /\ conn = [r \in Slots |-> Idle]
    /\ received = 0
    /\ stored = <<>>

\* lines 78-80: the middleware reads the start time and awaits the route
MiddlewareEnter(r, req) ==
    /\ conn[r].pc = "idle"
    /\ \A q \in Slots : q < r => conn[q].pc # "idle"
    /\ received' = received + 1
    /\ conn' = [conn EXCEPT ![r] =
                  [pc    |-> IF Protected(req) THEN "auth" ELSE "handler",
                   req   |-> req,
                   start |-> perf]]
    /\ UNCHANGED <<db, latency_stats, perf, stored>>

Reply(r, resp) ==
    conn' = [conn EXCEPT ![r] = [pc |-> "respond", req |-> conn[r].req,
                                 start |-> conn[r].start, resp |-> resp]]

\* lines 28-35, run for the routes declared with Depends(get_api_key)
get_api_key(r) ==
    /\ conn[r].pc = "auth"
    /\ IF GetApiKey(conn[r].req.header)
         THEN conn' = [conn EXCEPT ![r].pc = "handler"]
         ELSE Reply(r, Unauthorized)
    /\ UNCHANGED <<db, latency_stats, perf, received, stored>>

\* lines 96-110, `now` being what time.time() reads at line 99; a body that
\* fails validation never reaches line 99 (status and stored_at of the
\* response are left out)
post_user_message(r, now) ==
    /\ conn[r].pc = "handler"
    /\ conn[r].req.route = "post"
    /\ IF ~conn[r].req.valid
         THEN /\ Reply(r, ValidationError)
              /\ UNCHANGED <<db, stored>>
         ELSE LET message == Stamp(conn[r].req.message, now)
              IN  /\ db' = Put(db, message)
                  /\ stored' = Append(stored, message)
                  /\ Reply(r, Ok([message_id      |-> message.id,
                                  latency_seconds |-> message.tsDifference]))
    /\ UNCHANGED <<latency_stats, perf, received>>

\* lines 113-120
fetch_user_message(r) ==
    /\ conn[r].pc = "handler"
    /\ conn[r].req.route = "get"
    /\ Reply(r, FetchUserMessage(db, conn[r].req.message_id))
    /\ UNCHANGED <<db, latency_stats, perf, received, stored>>

\* lines 123-127
fetch_messages(r) ==
    /\ conn[r].pc = "handler"
    /\ conn[r].req.route = "list"
    /\ Reply(r, Ok(FetchMessages(db, conn[r].req.skip, conn[r].req.limit)))
    /\ UNCHANGED <<db, latency_stats, perf, received, stored>>

\* lines 131-139
health_check(r) ==
    /\ conn[r].pc = "handler"
    /\ conn[r].req.route = "health"
    /\ \E avg \in AvgLatency(latency_stats) : Reply(r, Ok(HealthBody(db, avg)))
    /\ UNCHANGED <<db, latency_stats, perf, received, stored>>

\* lines 81-88: the middleware resumes with the response, updates the
\* counters and returns
MiddlewareExit(r) ==
    /\ conn[r].pc = "respond"
    /\ latency_stats' = UpdateStats(latency_stats, perf - conn[r].start)
    /\ conn' = [conn EXCEPT ![r] = Idle]
    /\ UNCHANGED <<db, perf, received, stored>>

\* time.perf_counter() is monotonic
PerfTick ==
    /\ perf < MaxPerf
    /\ perf' = perf + 1
    /\ UNCHANGED <<db, latency_stats, conn, received, stored>>

Next ==
    \/ \E r \in Slots, req \in Requests : received < MaxReq /\ MiddlewareEnter(r, req)
    \/ \E r \in Slots : get_api_key(r)
    \/ \E r \in Slots, now \in WallTimes : post_user_message(r, now)
    \/ \E r \in Slots : fetch_user_message(r)
    \/ \E r \in Slots : fetch_messages(r)
    \/ \E r \in Slots : health_check(r)
    \/ \E r \in Slots : MiddlewareExit(r)
    \/ PerfTick

Spec == Init /\ [][Next]_vars

(************************** the pagination runs ****************************)
\* One client, one request at a time: it posts PageIds messages with distinct
\* ids, the largest id first (so that insertion order is not id order), and
\* lists the store at any point with skip and limit from below zero to
\* beyond the store, or with the default limit.  The wall clock stands still.
PageParams == (0 - PageMargin)..(PageIds + PageMargin)

PagePosts ==
    IF Len(db) < PageIds
      THEN {PostRequest(API_KEY, TRUE,
                        UserMessage(PageIds - Len(db), CHOOSE v \in Variants : v.stamps = None))}
      ELSE {}

PageLists ==
    {ListRequest(API_KEY, s, l) : s \in PageParams, l \in PageParams \cup {DefaultLimit}}

NextPage ==
    \/ \E req \in PagePosts : MiddlewareEnter(1, req)
    \/ \E req \in PageLists : received < PageIds + 1 /\ MiddlewareEnter(1, req)
    \/ get_api_key(1)
    \/ post_user_message(1, MaxWall)
    \/ fetch_messages(1)
    \/ MiddlewareExit(1)

SpecPage == Init /\ [][NextPage]_vars

(***************************************************************************)
(*                              The claims                                 *)
(***************************************************************************)
\* the step in which the route handler of slot r, on `route`, runs
Handles(r, route) ==
    /\ conn[r].pc = "handler"
    /\ conn[r].req.route = route
    /\ conn'[r].pc = "respond"

\* the step in which the middleware of slot r returns the response
Exits(r) == conn[r].pc = "respond" /\ conn'[r].pc = "idle"

InFlight == {r \in Slots : conn[r].pc # "idle"}

\* the ids posted so far, and the latest post of an id
PostedIds == {stored[i].id : i \in 1..Len(stored)}

LastPostOf(id) ==
    stored[CHOOSE i \in 1..Len(stored) :
             /\ stored[i].id = id
             /\ \A j \in 1..Len(stored) : stored[j].id = id => j <= i]

\* a record as one POST leaves it: both stamps set, from one clock reading
ServerStamped(m) ==
    \E t \in WallTimes : m.receive_At = {t} /\ m.tsDifference = {t - m.send_At}

\* C1: every record in the store carries a receive_At read from the server's
\* clock and tsDifference = receive_At - send_At; what the request body said
\* about either field is never stored.
C1_ServerAuthoritative ==
    \A i \in 1..Len(db) : ServerStamped(db[i]) /\ Bogus \notin db[i].receive_At \cup db[i].tsDifference

\* a stored record whose request body carried its own receive_At and tsDifference
C1_Witness ==
    \E i \in 1..Len(db), j \in 1..Len(stored) :
        /\ db[i] = stored[j]
        /\ db[i].content = "second"
        /\ db[i].tsDifference = {0 - MaxSend}

\* C2: GET by id answers not-found exactly when no POST of that id has run,
\* and otherwise returns the record of the latest POST of that id, whole.
C2_GetReturnsLatest ==
    [][\A r \in Slots :
         Handles(r, "get") =>
           LET id == conn[r].req.message_id
           IN  IF id \in PostedIds
                 THEN conn'[r].resp = Ok(LastPostOf(id))
                 ELSE conn'[r].resp = NotFound]_vars

\* a GET answered with the second record of an id that was posted twice, with
\* other content, and a GET of an id never posted answered not-found
C2_WitnessOverwrite ==
    \E r \in Slots :
        /\ conn[r].pc = "respond"
        /\ conn[r].req.route = "get"
        /\ conn[r].resp.status = "ok"
        /\ Len(stored) = 2
        /\ stored[1].id = stored[2].id
        /\ stored[1].content # stored[2].content
        /\ conn[r].resp.body = stored[2]

\* the records at positions skip .. skip+limit-1 of d, counted from 0
Window(d, skip, limit) ==
    [i \in 1..Max(0, Min(limit, Len(d) - skip)) |-> d[skip + i]]

\* C3, the claim as it was made: List(skip, limit) with skip >= 0 and
\* limit > 0 returns the records at positions skip .. skip+limit-1 of the
\* insertion order, and after N+5 posts of distinct ids List(0, N) returns
\* the first N posted and List(N, N) the remaining 5, for every N > 0.
C3_Original ==
    [][\A r \in Slots :
         Handles(r, "list") /\ conn[r].req.skip >= 0 /\ conn[r].req.limit > 0 =>
           LET skip  == conn[r].req.skip
               limit == conn[r].req.limit
               body  == conn'[r].resp.body
           IN  /\ body = Window(stored, skip, limit)
               /\ Len(stored) = limit + 5 /\ skip = 0 => body = SubSeq(stored, 1, limit)
               /\ Len(stored) = limit + 5 /\ skip = limit =>
                    body = SubSeq(stored, limit + 1, limit + 5)]_vars

\* C3, amended: as above, but List(N, N) after N+5 posts returns the remaining
\* 5 only for N >= 5; for N < 5 it returns the N records after the first N.
C3_Pagination ==
    [][\A r \in Slots :
         Handles(r, "list") /\ conn[r].req.skip >= 0 /\ conn[r].req.limit > 0 =>
           LET skip  == conn[r].req.skip
               limit == conn[r].req.limit
               body  == conn'[r].resp.body
           IN  /\ body = Window(stored, skip, limit)
               /\ Len(body) <= limit
               /\ skip >= Len(stored) => body = <<>>
               /\ Len(stored) = limit + 5 /\ skip = 0 => body = SubSeq(stored, 1, limit)
               /\ Len(stored) = limit + 5 /\ skip = limit =>
                    body = SubSeq(stored, limit + 1, limit + Min(limit, 5))]_vars

\* after 5+5 posts, List(5, 5) has answered with the last 5 posted
C3_Witness ==
    /\ conn[1].pc = "respond"
    /\ conn[1].req.route = "list"
    /\ conn[1].req.skip = 5
    /\ conn[1].req.limit = 5
    /\ Len(stored) = 10
    /\ conn[1].resp.body = SubSeq(stored, 6, 10)
    /\ conn[1].resp.body[1].id > conn[1].resp.body[5].id

\* C9: List(skip, limit) with skip < 0 or limit <= 0 returns the empty sequence
\* or the result from offset 0 (the first `limit` records, or all of them when
\* limit gives no count), never another part of the store.
C9_NegativeParams ==
    [][\A r \in Slots :
         Handles(r, "list") /\ (conn[r].req.skip < 0 \/ conn[r].req.limit <= 0) =>
           LET limit == conn[r].req.limit
               body  == conn'[r].resp.body
           IN  \/ body = <<>>
               \/ body = db
               \/ limit > 0 /\ body = Window(db, 0, limit)]_vars

\* C4: a request to a protected route without the header, or with another
\* value than API_KEY, is answered unauthorized by the gate, never reaches
\* its route handler, and none of its steps changes the store.
C4_UnauthorizedRejected ==
    /\ [][\A r \in Slots :
            /\ conn[r].pc # "idle"
            /\ Protected(conn[r].req)
            /\ conn[r].req.header # API_KEY
            /\ conn'[r] # conn[r]
            => /\ db' = db
               /\ conn[r].pc = "auth" =>
                    conn'[r].pc = "respond" /\ conn'[r].resp = Unauthorized
               /\ conn[r].pc \in {"auth", "respond"}]_vars
    /\ [](\A r \in Slots :
            conn[r].pc # "idle" /\ Protected(conn[r].req) /\ conn[r].req.header # API_KEY
            => conn[r].pc \in {"auth", "respond"})

\* a POST without the header rejected while the store holds a record
C4_Witness ==
    \E r \in Slots :
        /\ conn[r].pc = "respond"
        /\ conn[r].req.route = "post"
        /\ conn[r].req.header = NoHeader
        /\ conn[r].resp = Unauthorized
        /\ Len(db) = 1

\* C5, the claim as it was made: while no message has been posted, GET /health
\* reports message_count = 0 and avg_latency_ms = 0, whatever was served before.
C5_Original ==
    [][\A r \in Slots :
         Handles(r, "health") /\ stored = <<>> =>
           conn'[r].resp = Ok([message_count |-> 0, avg_latency_ms |-> 0])]_vars

\* C5, amended: while no message has been posted, GET /health reports
\* message_count = 0; it reports avg_latency_ms = 0 when no request has
\* completed before it.
C5_HealthBeforePosts ==
    [][\A r \in Slots :
         Handles(r, "health") /\ stored = <<>> =>
           /\ conn'[r].resp.status = "ok"
           /\ conn'[r].resp.body.message_count = 0
           /\ received = Cardinality(InFlight) => conn'[r].resp.body.avg_latency_ms = 0]_vars

\* the first request to complete is a health check, and it reported 0 and 0
C5_Witness ==
    \E r \in Slots :
        /\ conn[r].pc = "respond"
        /\ conn[r].req.route = "health"
        /\ conn[r].resp = Ok([message_count |-> 0, avg_latency_ms |-> 0])
        /\ stored = <<>>
        /\ latency_stats.count = 0

\* C6, the claim as it was made: after k posts GET /health reports
\* message_count = k.
C6_Original ==
    [][\A r \in Slots :
         Handles(r, "health") => conn'[r].resp.body.message_count = Len(stored)]_vars

\* C6, amended: GET /health reports as message_count the number of distinct
\* ids posted so far, which is k when the k posts carried distinct ids.
C6_HealthCountsIds ==
    [][\A r \in Slots :
         Handles(r, "health") =>
           /\ conn'[r].resp.body.message_count = Cardinality(PostedIds)
           /\ (\A i, j \in 1..Len(stored) : stored[i].id = stored[j].id => i = j)
                => conn'[r].resp.body.message_count = Len(stored)]_vars

\* two posts with distinct ids, then a health check that reported 2
C6_Witness ==
    \E r \in Slots :
        /\ conn[r].pc = "respond"
        /\ conn[r].req.route = "health"
        /\ Len(stored) = 2
        /\ stored[1].id # stored[2].id
        /\ conn[r].resp.body.message_count = 2

\* C7: under any interleaving the counters are updated exactly once per
\* completed request, whatever its route and outcome: count is the number of
\* completed requests, each completion adds its elapsed time to total_ms, and
\* no other step touches the counters.
C7_StatsPerRequest ==
    /\ [](latency_stats.count = received - Cardinality(InFlight))
    /\ [][\A r \in Slots :
            Exits(r) =>
              /\ latency_stats'.count = latency_stats.count + 1
              /\ latency_stats'.total_ms = latency_stats.total_ms + (perf - conn[r].start)]_vars
    /\ [][(\A r \in Slots : ~Exits(r)) => latency_stats' = latency_stats]_vars

\* two requests were in flight together and both took time: the one that
\* succeeded is counted, the one the gate rejected is about to be
C7_Witness ==
    \E r \in Slots :
        /\ latency_stats = [count |-> 1, total_ms |-> 1]
        /\ Len(stored) = 1
        /\ received = 2
        /\ conn[r].pc = "respond"
        /\ conn[r].resp = Unauthorized
        /\ conn[r].start = 0
        /\ perf = 1

\* C8: under any interleaving of POSTs and GETs no POST is lost (every id
\* posted is in the store) and no GET or List returns a torn record: each
\* record returned is, whole, the record one POST stored, with receive_At and
\* tsDifference both set from that POST's clock reading.
C8_NoLostNoTorn ==
    /\ [](PostedIds = DictKeys(db))
    /\ [][\A r \in Slots :
            /\ Handles(r, "get") /\ conn'[r].resp.status = "ok" =>
                 LET m == conn'[r].resp.body
                 IN  ServerStamped(m) /\ \E i \in 1..Len(stored) : stored[i] = m
            /\ Handles(r, "list") =>
                 \A k \in 1..Len(conn'[r].resp.body) :
                   LET m == conn'[r].resp.body[k]
                   IN  ServerStamped(m) /\ \E i \in 1..Len(stored) : stored[i] = m]_vars

\* a GET and two POSTs of its id overlap: the GET returned the first POST's
\* record, stamped, after the second POST had replaced it
C8_Witness ==
    \E r, q \in Slots :
        /\ conn[r].pc = "respond"
        /\ conn[r].req.route = "get"
        /\ conn[r].resp.status = "ok"
        /\ conn[q].pc = "respond"
        /\ conn[q].req.route = "post"
        /\ conn[q].resp.status = "ok"
        /\ conn[q].req.message.id = conn[r].req.message_id
        /\ Len(stored) = 2
        /\ conn[r].resp.body = stored[1]
        /\ stored[1].id = stored[2].id
        /\ stored[1] # stored[2]
        /\ ServerStamped(conn[r].resp.body)

IdOrder(d) == [i \in 1..Len(d) |-> d[i].id]

\* C10: a POST of an id already in the store replaces the record where it is:
\* the store keeps its size and the id its List position; no step removes an
\* id or changes the order of the ids, new ids go last.
C10_OrderKept ==
    [][/\ Len(db') >= Len(db)
       /\ SubSeq(IdOrder(db'), 1, Len(db)) = IdOrder(db)
       /\ \A r \in Slots :
            Handles(r, "post") /\ conn[r].req.valid /\ Contains(db, conn[r].req.message.id) =>
              /\ Len(db') = Len(db)
              /\ \E i \in 1..Len(db) :
                   /\ db[i].id = conn[r].req.message.id
                   /\ db'[i].id = db[i].id
                   /\ db'[i].content = conn[r].req.message.content
                   /\ \A j \in 1..Len(db) : j # i => db'[j] = db[j]]_vars

\* the first of two ids was posted again, with other content, and is still first
C10_Witness ==
    /\ Len(db) = 2
    /\ Len(stored) = 3
    /\ stored[1].id = stored[3].id
    /\ stored[1].id # stored[2].id
    /\ stored[1].content # stored[3].content
    /\ db = <<stored[3], stored[2]>>

====
